---- MODULE Spec2Model ----
(***************************************************************************)
(* Directory watcher (src/directory_watcher/script.py).                    *)
(*                                                                         *)
(* Two threads share one pickle file:                                      *)
(*   - the main thread runs the tick loop of main(): for every handler     *)
(*     check_idle(), check_send_alert(), send_alert();                     *)
(*   - the observer thread delivers filesystem events to dispatch().       *)
(* set_persist is a load / open-for-write (truncate) / dump sequence with  *)
(* no lock, so every one of its three file accesses is a step of its own.  *)
(* Timestamps are integers counted in tick intervals: time.sleep(1) moves  *)
(* the clock by one and nothing else takes time. None is the absent value. *)
(*                                                                         *)
(* Spec is the watcher as main() starts it. The other specifications are   *)
(* the same threads with restarts (SpecRestart), with event filters        *)
(* (SpecFiltered, SpecUnfiltered), with an interrupt (SpecInterrupt), with *)
(* the default retry interval (SpecDefaultRetry), without write failures   *)
(* (SpecWrites, SpecLive); SpecSetup is main() up to the tick loop and     *)
(* SpecStore a single caller of the store functions.                       *)
(***************************************************************************)
EXTENDS Integers, Naturals, Sequences, FiniteSets, TLC

\* ---------------------------------------------------------------- bounds
\* the clock stops at MaxTime; at most MaxEvents events are delivered
MaxTime == 5
MaxEvents == 1
\* --idle-time-threshold and --retry-alert-interval, in tick intervals
IdleTimeThreshold == 1
RetryAlertArg == 2

\* --------------------------------------------------------- configuration
None == -1
NoWorkspace == 0
\* the paths main() is given, in the order of event_handlers
Paths == {1, 2}
EmptyDict == [k \in {} |-> None]

EventKinds == {"created", "modified", "deleted", "moved"}

\* event_types=None, the default main() leaves in place
NoEventTypes == [is_none |-> TRUE, kinds |-> {}]

\* alert_type, email_to (non-empty or not) and event_types a handler can be
\* constructed with; nothing but the notifier's outcome depends on the
\* first two, so send_alert draws them at each call
Configs ==
    { [alert_type |-> "email", email_to |-> TRUE,  event_types |-> NoEventTypes],
      [alert_type |-> "email", email_to |-> FALSE, event_types |-> NoEventTypes],
      [alert_type |-> "sms",   email_to |-> FALSE, event_types |-> NoEventTypes],
      [alert_type |-> "pager", email_to |-> FALSE, event_types |-> NoEventTypes] }

VARIABLES
    now,      \* datetime.utcnow()
    file,     \* pickle.db: [readable, data]; the data of an unreadable file is
              \* what it held before it was truncated, which no operation reads
    tick,     \* main thread: [pc, i, val, blob, out]
    ev,       \* observer thread: [pc, path, val, blob]
    sent,     \* history: time of the last send_alert invocation per path
    act,      \* history: time of the last completed dispatch per path
    nev,      \* number of events delivered so far
    cfg,      \* what the handlers are constructed with: [retry_arg, event_types]
    proc,     \* the process: [pc, start, args, i, scheduled, started, status]
    call      \* the last call of a client of the store functions

vars == <<now, file, tick, ev, sent, act, nev, cfg, proc, call>>

\* timedelta comparisons use the handler's fields set in __init__; an absent
\* --retry-alert-interval (0 here) leaves retry_alert_interval=None, and
\* "retry_alert_interval or idle_time_threshold" takes the threshold
idle_time_threshold == IdleTimeThreshold
retry_alert_interval == IF cfg.retry_arg # 0 THEN cfg.retry_arg ELSE idle_time_threshold

\* ------------------------------------------------------------ the store
DictGet(d, k, default) == IF k \in DOMAIN d THEN d[k] ELSE default

DictPut(d, k, v) == [x \in (DOMAIN d) \cup {k} |-> IF x = k THEN v ELSE d[x]]

\* a load that still finds the previous content in a file it cannot read
PickleLoadStale(f) == f.data

\* open(pickle_file, 'rb') + pickle.load inside try/except: {} on any failure
PickleLoad(f) == IF f.readable THEN f.data ELSE EmptyDict

\* the in-memory mutation of set_persist
SetMutate(old_data, name, value, workspace) ==
    IF workspace # NoWorkspace
    THEN DictPut(old_data, workspace,
                 DictPut(DictGet(old_data, workspace, EmptyDict), name, value))
    ELSE DictPut(old_data, name, value)

get_persist(f, name, default, workspace) ==
    LET data == PickleLoad(f)
    IN  IF workspace # NoWorkspace
        THEN DictGet(DictGet(data, workspace, EmptyDict), name, default)
        ELSE DictGet(data, name, default)

\* open(pickle_file, 'wb'): the file is truncated until the dump is flushed
Truncated(f) == [readable |-> FALSE, data |-> f.data]

\* the file does not exist
Missing == [readable |-> FALSE, data |-> EmptyDict]

\* pickle.dump(old_data, f_out) and close
Dumped(blob) == [readable |-> TRUE, data |-> blob]

\* clean_persist()
clean_persist == Dumped(EmptyDict)

\* ------------------------------------------------------------- notifier
\* What send_mail does: the assert on an empty recipient list, or the
\* request, which succeeds or raises (network failure, raise_for_status).
send_mail(to) == IF ~to THEN {"AssertionError"} ELSE {"sent", "RequestException"}

\* The body of send_alert's try block: the set of ways it can end.
Notify(c) ==
    IF c.alert_type = "email" THEN send_mail(c.email_to)
    ELSE IF c.alert_type = "sms" THEN {"sms_not_implemented"}
    ELSE {"NotImplementedError"}

Raised(out) == out \in {"AssertionError", "RequestException", "NotImplementedError"}

\* an except clause that names the transport's exceptions only
SendAlertCatchesRequests(out) == out = "RequestException"

\* "except Exception" in send_alert: every exception the try block raises is caught
SendAlertCatches(out) == Raised(out)

\* ---------------------------------------------------- handler decisions
\* the comparison with the boundary included
IsIdleAtThreshold(last_modified, t) == t - last_modified >= idle_time_threshold

\* the comparison of check_idle
IsIdle(last_modified, t) == t - last_modified > idle_time_threshold

\* the decision with the boundary excluded
MaySendAlertAfter(last_alert, t) ==
    ~(last_alert # None /\ t - last_alert <= retry_alert_interval)

\* the decision of check_send_alert
MaySendAlert(last_alert, t) ==
    ~(last_alert # None /\ t - last_alert < retry_alert_interval)

\* a filter that lets every kind through
AcceptsAll(event_types, kind) == TRUE

\* the filter of dispatch
Accepts(event_types, kind) == event_types.is_none \/ kind \in event_types.kinds

\* ---------------------------------------------------------- history
StoredLm(f, p) == get_persist(f, "last_modified", None, p)
StoredLa(f, p) == get_persist(f, "last_alert", None, p)

\* ------------------------------------------------------------ main thread
Running == tick.pc # "crashed"

TickAt(pc, i, val, blob, out) ==
    [pc |-> pc, i |-> i, val |-> val, blob |-> blob, out |-> out]

\* the for loop of main(): the next handler, or back to time.sleep(1)
NextHandler(i) ==
    IF i + 1 \in Paths THEN TickAt("check_idle", i + 1, None, EmptyDict, "none")
    ELSE TickAt("sleep", 0, None, EmptyDict, "none")

\* what follows check_idle() in "check_idle() and check_send_alert()"
AfterCheckIdle(i, idle) ==
    IF idle THEN TickAt("check_send_alert", i, None, EmptyDict, "none")
    ELSE NextHandler(i)

\* time.sleep(1) and the start of the for loop: a tick takes at least one
\* unit of time
Sleep ==
    /\ tick.pc = "sleep"
    /\ now < MaxTime
    /\ now' = now + 1
    /\ tick' = TickAt("check_idle", 1, None, EmptyDict, "none")
    /\ UNCHANGED <<file, ev, sent, act, nev, cfg, proc, call>>

\* check_idle: get_persist, then either the comparison or the lazy initialisation
CheckIdle ==
    /\ tick.pc = "check_idle"
    /\ LET last_modified == get_persist(file, "last_modified", None, tick.i)
       IN  tick' = IF last_modified = None
                   THEN TickAt("ci_load", tick.i, now, EmptyDict, "none")
                   ELSE AfterCheckIdle(tick.i, IsIdle(last_modified, now))
    /\ UNCHANGED <<now, file, ev, sent, act, nev, cfg, proc, call>>

CiLoad ==
    /\ tick.pc = "ci_load"
    /\ tick' = [tick EXCEPT !.pc = "ci_open",
                            !.blob = SetMutate(PickleLoad(file), "last_modified", tick.val, tick.i)]
    /\ UNCHANGED <<now, file, ev, sent, act, nev, cfg, proc, call>>

CiOpen ==
    /\ tick.pc = "ci_open"
    /\ file' = Truncated(file)
    /\ tick' = [tick EXCEPT !.pc = "ci_dump"]
    /\ UNCHANGED <<now, ev, sent, act, nev, cfg, proc, call>>

\* the write fails in check_idle: nothing in main() catches it
CiOpenFails ==
    /\ tick.pc = "ci_open"
    /\ tick' = TickAt("crashed", tick.i, None, EmptyDict, "none")
    /\ UNCHANGED <<now, file, ev, sent, act, nev, cfg, proc, call>>

CiDump ==
    /\ tick.pc = "ci_dump"
    /\ file' = Dumped(tick.blob)
    /\ tick' = [tick EXCEPT !.pc = "ci_cmp", !.blob = EmptyDict]
    /\ UNCHANGED <<now, ev, sent, act, nev, cfg, proc, call>>

CiCmp ==
    /\ tick.pc = "ci_cmp"
    /\ tick' = AfterCheckIdle(tick.i, IsIdle(tick.val, now))
    /\ UNCHANGED <<now, file, ev, sent, act, nev, cfg, proc, call>>

CheckSendAlert ==
    /\ tick.pc = "check_send_alert"
    /\ LET last_alert == get_persist(file, "last_alert", None, tick.i)
       IN  tick' = IF MaySendAlert(last_alert, now)
                   THEN TickAt("send_alert", tick.i, None, EmptyDict, "none")
                   ELSE NextHandler(tick.i)
    /\ UNCHANGED <<now, file, ev, sent, act, nev, cfg, proc, call>>

\* send_alert up to the end of its try/except; an exception the except clause
\* does not catch reaches "except Exception" in main() and skips set_persist
SendAlert ==
    /\ tick.pc = "send_alert"
    /\ \E c \in Configs : \E out \in Notify(c) :
          tick' = IF Raised(out) /\ ~SendAlertCatches(out)
                  THEN NextHandler(tick.i)
                  ELSE TickAt("sa_load", tick.i, None, EmptyDict, out)
    /\ sent' = [sent EXCEPT ![tick.i] = now]
    /\ UNCHANGED <<now, file, ev, act, nev, cfg, proc, call>>

SaLoad ==
    /\ tick.pc = "sa_load"
    /\ tick' = [tick EXCEPT !.pc = "sa_open", !.val = now,
                            !.blob = SetMutate(PickleLoad(file), "last_alert", now, tick.i)]
    /\ UNCHANGED <<now, file, ev, sent, act, nev, cfg, proc, call>>

SaOpen ==
    /\ tick.pc = "sa_open"
    /\ file' = Truncated(file)
    /\ tick' = [tick EXCEPT !.pc = "sa_dump"]
    /\ UNCHANGED <<now, ev, sent, act, nev, cfg, proc, call>>

\* the write fails in send_alert: main() catches it, prints and goes on
SaOpenFails ==
    /\ tick.pc = "sa_open"
    /\ tick' = NextHandler(tick.i)
    /\ UNCHANGED <<now, file, ev, sent, act, nev, cfg, proc, call>>

SaDump ==
    /\ tick.pc = "sa_dump"
    /\ file' = Dumped(tick.blob)
    /\ tick' = NextHandler(tick.i)
    /\ UNCHANGED <<now, ev, sent, act, nev, cfg, proc, call>>

\* -------------------------------------------------------- observer thread
EvIdle == [pc |-> "idle", path |-> 0, val |-> None, blob |-> EmptyDict]

\* dispatch(event) of the handler scheduled for path p; the observer
\* delivers events until observer.stop()
Dispatch(p, kind) ==
    /\ Running
    /\ proc.pc = "loop"
    /\ ev.pc = "idle"
    /\ nev < MaxEvents
    /\ nev' = nev + 1
    /\ ev' = IF Accepts(cfg.event_types, kind)
             THEN [pc |-> "ev_load", path |-> p, val |-> now, blob |-> EmptyDict]
             ELSE ev
    /\ UNCHANGED <<now, file, tick, sent, act, cfg, proc, call>>

EvLoad ==
    /\ Running
    /\ ev.pc = "ev_load"
    /\ ev' = [ev EXCEPT !.pc = "ev_open",
                        !.blob = SetMutate(PickleLoad(file), "last_modified", ev.val, ev.path)]
    /\ UNCHANGED <<now, file, tick, sent, act, nev, cfg, proc, call>>

EvOpen ==
    /\ Running
    /\ ev.pc = "ev_open"
    /\ file' = Truncated(file)
    /\ ev' = [ev EXCEPT !.pc = "ev_dump"]
    /\ UNCHANGED <<now, tick, sent, act, nev, cfg, proc, call>>

\* the write fails in dispatch: the exception ends the observer thread only
EvOpenFails ==
    /\ Running
    /\ ev.pc = "ev_open"
    /\ ev' = [EvIdle EXCEPT !.pc = "dead"]
    /\ UNCHANGED <<now, file, tick, sent, act, nev, cfg, proc, call>>

EvDump ==
    /\ Running
    /\ ev.pc = "ev_dump"
    /\ file' = Dumped(ev.blob)
    /\ act' = [act EXCEPT ![ev.path] = ev.val]
    /\ ev' = EvIdle
    /\ UNCHANGED <<now, tick, sent, nev, cfg, proc, call>>

\* ------------------------------------------------------------------ system
\* the handlers main() constructs: --retry-alert-interval as given, and no
\* event_types
MainConfig == [retry_arg |-> RetryAlertArg, event_types |-> NoEventTypes]

\* the process started at time t has passed observer.start() and is in the
\* tick loop
InLoop(t) == [pc |-> "loop", start |-> t]

\* no client is calling the store functions
NoCall == [op |-> "none"]

\* main() up to observer.start(): with --clean the store is emptied, without
\* it the file of a first start does not exist
Init ==
    /\ now = 0
    /\ file \in {Missing, clean_persist}
    /\ tick = TickAt("sleep", 0, None, EmptyDict, "none")
    /\ ev = EvIdle
    /\ sent = [p \in Paths |-> None]
    /\ act = [p \in Paths |-> None]
    /\ nev = 0
    /\ cfg = MainConfig
    /\ proc = InLoop(0)
    /\ call = NoCall

Next ==
    \/ Sleep
    \/ CheckIdle
    \/ CiLoad
    \/ CiOpen
    \/ CiOpenFails
    \/ CiDump
    \/ CiCmp
    \/ CheckSendAlert
    \/ SendAlert
    \/ SaLoad
    \/ SaOpen
    \/ SaOpenFails
    \/ SaDump
    \/ \E p \in Paths, kind \in EventKinds : Dispatch(p, kind)
    \/ EvLoad
    \/ EvOpen
    \/ EvOpenFails
    \/ EvDump

Spec == Init /\ [][Next]_vars

\* --------------------------------------------- the system without bounds
\* For behaviours that never end, the clock is kept relative: once it has
\* reached Horizon, a tick leaves it there and moves every timestamp one
\* unit into the past instead. A timestamp that reaches 0 stays there: it is
\* Horizon or more old, and the two comparisons of the handlers (age >
\* idle_time_threshold, age >= retry_alert_interval) cannot tell such ages
\* apart.
Horizon == IF idle_time_threshold + 1 >= retry_alert_interval
           THEN idle_time_threshold + 1 ELSE retry_alert_interval

Older(t) == IF t = None THEN None ELSE IF t > 0 THEN t - 1 ELSE 0

OlderDict(data) == [p \in DOMAIN data |-> [name \in DOMAIN data[p] |-> Older(data[p][name])]]

\* time.sleep(1) and the start of the for loop, with the relative clock
SleepLive ==
    /\ tick.pc = "sleep"
    /\ tick' = TickAt("check_idle", 1, None, EmptyDict, "none")
    /\ IF now < Horizon
       THEN /\ now' = now + 1
            /\ UNCHANGED <<file, ev, sent, act, cfg, proc, call>>
       ELSE /\ now' = now
            /\ file' = [file EXCEPT !.data = OlderDict(file.data)]
            /\ ev' = [ev EXCEPT !.val = Older(ev.val), !.blob = OlderDict(ev.blob)]
            /\ sent' = [p \in Paths |-> Older(sent[p])]
            /\ act' = [p \in Paths |-> Older(act[p])]
    /\ UNCHANGED <<nev, cfg, proc, call>>

\* dispatch(event) with no bound on the number of events
DispatchLive(p, kind) ==
    /\ ev.pc = "idle"
    /\ ev' = IF Accepts(cfg.event_types, kind)
             THEN [pc |-> "ev_load", path |-> p, val |-> now, blob |-> EmptyDict]
             ELSE ev
    /\ UNCHANGED <<now, file, tick, sent, act, nev, cfg, proc, call>>

\* the steps of the main thread and of a dispatch in progress
TickStep ==
    \/ SleepLive
    \/ CheckIdle
    \/ CiLoad
    \/ CiOpen
    \/ CiDump
    \/ CiCmp
    \/ CheckSendAlert
    \/ SendAlert
    \/ SaLoad
    \/ SaOpen
    \/ SaDump

EvStep ==
    \/ EvLoad
    \/ EvOpen
    \/ EvDump

NextLive ==
    \/ TickStep
    \/ EvStep
    \/ \E p \in Paths, kind \in EventKinds : DispatchLive(p, kind)

\* store writes succeed; both threads keep being scheduled; when events
\* arrive is up to the file system
SpecLive == Init /\ [][NextLive]_vars /\ WF_vars(TickStep) /\ WF_vars(EvStep)

\* ======================================================================
\* Properties
\* ======================================================================
Fields == {"last_modified", "last_alert"}

\* what the last complete content of the file holds for (p, f)
Held(f, p, name) == DictGet(DictGet(f.data, p, EmptyDict), name, None)

\* the step completes a set_persist(name, ..., workspace=p)
TickSets(p, name) ==
    \/ tick.pc = "ci_dump" /\ tick'.pc # "ci_dump" /\ p = tick.i /\ name = "last_modified"
    \/ tick.pc = "sa_dump" /\ tick'.pc # "sa_dump" /\ p = tick.i /\ name = "last_alert"
EvSets(p, name) ==
    ev.pc = "ev_dump" /\ ev'.pc # "ev_dump" /\ p = ev.path /\ name = "last_modified"

\* the step is a store write that fails
WriteFails ==
    \/ tick.pc = "ci_open" /\ tick'.pc \notin {"ci_open", "ci_dump"}
    \/ tick.pc = "sa_open" /\ tick'.pc \notin {"sa_open", "sa_dump"}
    \/ ev.pc = "ev_open" /\ ev'.pc \notin {"ev_open", "ev_dump"}

\* the step is check_idle() of the handler of p returning FALSE
CheckIdleFalse(p) ==
    tick.pc \in {"check_idle", "ci_cmp"} /\ tick.i = p /\ tick' = NextHandler(p)

\* no event for p has been delivered to dispatch
NoActivity(p) == act[p] = None /\ ev.path # p

\* C1: send_alert is invoked for a path only when it was never invoked for
\* it before or the last invocation is at least retry_alert_interval old.
C1_AlertsSeparated ==
    tick.pc = "send_alert" =>
        (sent[tick.i] = None \/ now - sent[tick.i] >= retry_alert_interval)

\* C2: no lost update: a completed set_persist leaves its value in the
\* store, and every other (path, field) keeps the value the last complete
\* content held, whichever thread wrote and however the sets overlapped.
C2_NoLostUpdate ==
    [][\A p \in Paths, name \in Fields :
          IF TickSets(p, name) THEN file'.readable /\ Held(file', p, name) = tick.val
          ELSE IF EvSets(p, name) THEN file'.readable /\ Held(file', p, name) = ev.val
          ELSE Held(file', p, name) = Held(file, p, name)]_vars

\* C3: from one complete content of the file to the next, last_modified of
\* a path never decreases and never becomes absent once present.
C3_LastModifiedMonotone ==
    [][\A p \in Paths :
          Held(file, p, "last_modified") # None =>
              /\ Held(file', p, "last_modified") # None
              /\ Held(file', p, "last_modified") >= Held(file, p, "last_modified")]_vars

\* C4: once a dispatch for p that ran at time t has completed, a check_idle
\* of p that starts at a time t' with t' - t <= idle_time_threshold does not
\* return TRUE.
C4_ActivityMakesActive ==
    [][\A p \in Paths :
          (tick.pc = "check_idle" /\ tick.i = p /\ act[p] # None
             /\ now - act[p] <= idle_time_threshold)
          => tick'.pc # "check_send_alert"]_vars

\* C5: a store write that fails, in dispatch, in check_idle or in
\* send_alert, ends the process: the tick loop takes no further step.
C5_WriteFailureFatal == [][WriteFails => tick'.pc = "crashed"]_vars

\* C6: whatever the notifier does (sent, raised, sms not implemented,
\* unknown channel), send_alert goes on to set_persist with the current
\* time, and when the write succeeds last_alert of the path is the current
\* time as send_alert returns and the tick loop goes on to the next handler.
C6_NotifyFailureAbsorbed ==
    [][/\ (tick.pc = "send_alert" /\ tick' # tick) => tick'.pc = "sa_load"
       /\ (tick.pc = "sa_load" /\ tick' # tick) =>
              (tick'.pc = "sa_open" /\ tick'.val = now /\ tick'.i = tick.i)
       /\ (tick.pc = "sa_dump" /\ tick' # tick) =>
              /\ file'.readable
              /\ StoredLa(file', tick.i) = now
              /\ tick' = NextHandler(tick.i)]_vars

\* the notifier raised and send_alert is writing last_alert = now
C6_Witness ==
    /\ tick.pc = "sa_dump"
    /\ Raised(tick.out)
    /\ Held(Dumped(tick.blob), tick.i, "last_alert") = now

\* C7: check_send_alert returns TRUE iff the last_alert it reads is absent
\* or at least retry_alert_interval old (boundary included); so while the
\* store holds the last_alert the last send_alert wrote, it returns TRUE
\* iff that send_alert is at least retry_alert_interval old.
C7_CooldownGate ==
    [][(tick.pc = "check_send_alert" /\ tick' # tick) =>
          LET la == StoredLa(file, tick.i)
              returns == tick'.pc = "send_alert" /\ tick'.i = tick.i
          IN  /\ returns <=> (la = None \/ now - la >= retry_alert_interval)
              /\ ~returns => tick' = NextHandler(tick.i)
              /\ (sent[tick.i] # None /\ la = sent[tick.i]) =>
                    (returns <=> now - sent[tick.i] >= retry_alert_interval)]_vars

\* the gate has reopened: check_send_alert returned TRUE on the last_alert
\* the previous send_alert stored, retry_alert_interval later
C7_Witness ==
    /\ tick.pc = "send_alert"
    /\ sent[tick.i] # None
    /\ StoredLa(file, tick.i) = sent[tick.i]
    /\ now - sent[tick.i] = retry_alert_interval

\* C8: check_idle returns TRUE iff now - last_modified > idle_time_threshold
\* for the last_modified it reads, without writing; when it reads none, it
\* writes the content it loads with only last_modified of its path set to
\* now, and returns the same comparison against that value.
C8_IdleTest ==
    [][/\ (tick.pc = "check_idle" /\ tick' # tick) =>
              LET lm == StoredLm(file, tick.i)
              IN  IF lm # None
                  THEN /\ file' = file
                       /\ (tick'.pc = "check_send_alert" /\ tick'.i = tick.i)
                             <=> now - lm > idle_time_threshold
                       /\ tick'.pc # "check_send_alert" => tick' = NextHandler(tick.i)
                  ELSE tick'.pc = "ci_load" /\ tick'.val = now /\ tick'.i = tick.i
       /\ (tick.pc = "ci_load" /\ tick' # tick) =>
              /\ tick'.pc = "ci_open" /\ tick'.val = tick.val /\ tick'.i = tick.i
              /\ \A p \in Paths, name \in Fields :
                    Held(Dumped(tick'.blob), p, name) =
                        IF p = tick.i /\ name = "last_modified" THEN tick.val
                        ELSE get_persist(file, name, None, p)
       /\ (tick.pc = "ci_dump" /\ tick' # tick) =>
              /\ file' = Dumped(tick.blob)
              /\ tick'.pc = "ci_cmp" /\ tick'.val = tick.val /\ tick'.i = tick.i
       /\ (tick.pc = "ci_cmp" /\ tick' # tick) =>
              /\ (tick'.pc = "check_send_alert" /\ tick'.i = tick.i)
                    <=> now - tick.val > idle_time_threshold
              /\ tick'.pc # "check_send_alert" => tick' = NextHandler(tick.i)]_vars

\* check_idle has returned TRUE on a stored last_modified
C8_Witness ==
    /\ tick.pc = "check_send_alert"
    /\ file.readable
    /\ StoredLm(file, tick.i) # None
    /\ now - StoredLm(file, tick.i) > idle_time_threshold

\* C9: while no event for p has been delivered and more than
\* idle_time_threshold has passed since the monitor started (time 0),
\* check_idle of p does not return FALSE.
C9_IdleAfterThreshold ==
    [][\A p \in Paths :
          (NoActivity(p) /\ now - 0 > idle_time_threshold) => ~CheckIdleFalse(p)]_vars

\* C10: a path that never receives an event has send_alert invoked for it
\* again and again, as long as ticks occur and store writes succeed.
C10_RepeatAlerts ==
    \A p \in Paths :
        [](NoActivity(p)) => []<>(tick.pc = "send_alert" /\ tick.i = p)

\* ======================================================================
\* Restart
\* ======================================================================
\* a start that always empties the store
StartupStoreCleans(f, clean) == clean_persist

\* "if args.clean: clean_persist()": nothing else in main() touches
\* pickle.db before the tick loop
StartupStore(f, clean) == IF clean THEN clean_persist ELSE f

\* no call of set_persist is between its load and the end of its dump
BetweenStoreOperations ==
    /\ tick.pc \in {"sleep", "check_idle", "ci_load", "ci_cmp",
                    "check_send_alert", "send_alert", "sa_load"}
    /\ ev.pc \in {"idle", "ev_load"}

\* the process is stopped: both threads are gone, pickle.db stays
Stop ==
    /\ proc.pc = "loop"
    /\ BetweenStoreOperations
    /\ proc' = [proc EXCEPT !.pc = "stopped"]
    /\ tick' = TickAt("stopped", 0, None, EmptyDict, "none")
    /\ ev' = [EvIdle EXCEPT !.pc = "dead"]
    /\ UNCHANGED <<now, file, sent, act, nev, cfg, call>>

\* time passes while no process runs
Down ==
    /\ proc.pc = "stopped"
    /\ now < MaxTime
    /\ now' = now + 1
    /\ UNCHANGED <<file, tick, ev, sent, act, nev, cfg, proc, call>>

\* main() is run again without --clean, with the same arguments
Start ==
    /\ proc.pc = "stopped"
    /\ file' = StartupStore(file, FALSE)
    /\ proc' = InLoop(now)
    /\ tick' = TickAt("sleep", 0, None, EmptyDict, "none")
    /\ ev' = EvIdle
    /\ UNCHANGED <<now, sent, act, nev, cfg, call>>

NextRestart ==
    \/ Sleep
    \/ CheckIdle
    \/ CiLoad
    \/ CiOpen
    \/ CiDump
    \/ CiCmp
    \/ CheckSendAlert
    \/ SendAlert
    \/ SaLoad
    \/ SaOpen
    \/ SaDump
    \/ Stop
    \/ Down
    \/ Start

\* the watcher with restarts, on directories where nothing changes; store
\* writes succeed
SpecRestart == Init /\ [][NextRestart]_vars

\* C11: a stop and a start without --clean leave pickle.db, and with it
\* last_modified and last_alert of every path, as they were; and whenever
\* the process was started, check_idle returns TRUE iff now - T >
\* idle_time_threshold for the last_modified T it reads (none is written
\* when one is stored), and check_send_alert returns TRUE iff the last_alert
\* it reads is absent or at least retry_alert_interval old.
C11_RestartDurability ==
    [][/\ (proc.pc = "loop" /\ proc'.pc = "stopped") => file' = file
       /\ (proc.pc = "stopped" /\ proc'.pc = "loop") =>
              /\ file' = file
              /\ \A p \in Paths, name \in Fields :
                    get_persist(file', name, None, p) = get_persist(file, name, None, p)
       /\ (tick.pc = "check_idle" /\ tick' # tick /\ proc'.pc = "loop") =>
              LET T == StoredLm(file, tick.i)
              IN  T # None =>
                    /\ file' = file
                    /\ (tick'.pc = "check_send_alert" /\ tick'.i = tick.i)
                          <=> now - T > idle_time_threshold
       /\ (tick.pc = "check_send_alert" /\ tick' # tick /\ proc'.pc = "loop") =>
              LET la == StoredLa(file, tick.i)
              IN  (tick'.pc = "send_alert" /\ tick'.i = tick.i)
                    <=> (la = None \/ now - la >= retry_alert_interval)]_vars

\* a restarted process finds a path idle on a last_modified stored before
\* it started, within idle_time_threshold of its own start
C11_Witness ==
    /\ proc.pc = "loop"
    /\ proc.start > 0
    /\ tick.pc = "check_send_alert"
    /\ file.readable
    /\ StoredLm(file, tick.i) # None
    /\ StoredLm(file, tick.i) < proc.start
    /\ now - proc.start <= idle_time_threshold

\* ======================================================================
\* Event filters
\* ======================================================================
\* event_types given as a collection of kinds
Filter(kinds) == [is_none |-> FALSE, kinds |-> kinds]

\* handlers constructed with a non-empty event_types
InitFiltered ==
    /\ now = 0
    /\ file \in {Missing, clean_persist}
    /\ tick = TickAt("sleep", 0, None, EmptyDict, "none")
    /\ ev = EvIdle
    /\ sent = [p \in Paths |-> None]
    /\ act = [p \in Paths |-> None]
    /\ nev = 0
    /\ cfg \in {[MainConfig EXCEPT !.event_types = Filter({"created"})],
                [MainConfig EXCEPT !.event_types = Filter({"modified", "moved"})]}
    /\ proc = InLoop(0)
    /\ call = NoCall

\* handlers constructed with event_types absent or empty
InitUnfiltered ==
    /\ now = 0
    /\ file \in {Missing, clean_persist}
    /\ tick = TickAt("sleep", 0, None, EmptyDict, "none")
    /\ ev = EvIdle
    /\ sent = [p \in Paths |-> None]
    /\ act = [p \in Paths |-> None]
    /\ nev = 0
    /\ cfg \in {MainConfig, [MainConfig EXCEPT !.event_types = Filter({})]}
    /\ proc = InLoop(0)
    /\ call = NoCall

\* both threads; store writes succeed
NextWrites ==
    \/ Sleep
    \/ CheckIdle
    \/ CiLoad
    \/ CiOpen
    \/ CiDump
    \/ CiCmp
    \/ CheckSendAlert
    \/ SendAlert
    \/ SaLoad
    \/ SaOpen
    \/ SaDump
    \/ \E p \in Paths, kind \in EventKinds : Dispatch(p, kind)
    \/ EvLoad
    \/ EvOpen
    \/ EvDump

SpecFiltered == InitFiltered /\ [][NextWrites]_vars

SpecUnfiltered == InitUnfiltered /\ [][NextWrites]_vars

\* what a call of dispatch for p that goes on to set_persist with the
\* current time leaves in the observer thread
DispatchSets(p) == [pc |-> "ev_load", path |-> p, val |-> now, blob |-> EmptyDict]

\* C12: with a non-empty event_types, a dispatch of an event whose kind is
\* not in it changes nothing (the store file included), however many such
\* events arrive; a dispatch of an event whose kind is in it goes on to
\* set_persist('last_modified', now) for its path, and the dump of that
\* set_persist leaves last_modified of the path at that time.
C12_FilteredNoEffect ==
    [][/\ \A p \in Paths, kind \in EventKinds :
              (Dispatch(p, kind) /\ cfg.event_types.kinds # {}) =>
                  IF kind \in cfg.event_types.kinds
                  THEN ev' = DispatchSets(p) /\ file' = file
                  ELSE <<now, file, tick, ev, sent, act>>' = <<now, file, tick, ev, sent, act>>
       /\ (ev.pc = "ev_dump" /\ ev' # ev) =>
              /\ file'.readable
              /\ StoredLm(file', ev.path) = ev.val]_vars

\* an event of a kind in the filter has set last_modified of its path
C12_Witness ==
    /\ ~cfg.event_types.is_none
    /\ cfg.event_types.kinds # {}
    /\ ev.pc = "idle"
    /\ \E p \in Paths : act[p] # None /\ file.readable /\ StoredLm(file, p) = act[p]

\* C13: with event_types None or empty, a dispatch of an event of any kind
\* goes on to set_persist('last_modified', now) for its path.
C13_NoFilterMeansAll ==
    [][\A p \in Paths, kind \in EventKinds :
          (Dispatch(p, kind) /\ (cfg.event_types.is_none \/ cfg.event_types.kinds = {}))
              => ev' = DispatchSets(p)]_vars

\* ======================================================================
\* The store functions under arbitrary arguments
\* ======================================================================
\* A caller other than the handlers may pass any name, with or without a
\* workspace, so an entry at the top level of the pickled dict is either a
\* workspace's dict or a plain value; the entries carry their type here.
\* Names and workspaces are strings of one pool (a name may be spelled like
\* a workspace); a falsy workspace (None, '') is NoWorkspace.
StoreKeys == {1, 2}
\* a falsy and a truthy value
StoreValues == {None, 1}
\* defaults a caller of get_persist passes; 2 is never stored
Defaults == {None, 2}

Scalar(v) == [is_dict |-> FALSE, v |-> v, d |-> EmptyDict]
Dict(d) == [is_dict |-> TRUE, v |-> None, d |-> d]

\* the truth value of an entry in "data.get(workspace) or {}"
IsTrue(e) == IF e.is_dict THEN DOMAIN e.d # {} ELSE e.v # None

\* set_persist as one call: what it leaves in the file, or that it raised
\* (item assignment on an entry that is not a dict) before opening the file
set_persist(f, name, value, workspace) ==
    LET old_data == PickleLoad(f)
    IN  IF workspace # NoWorkspace
        THEN IF workspace \in DOMAIN old_data /\ ~old_data[workspace].is_dict
             THEN [raised |-> TRUE, file |-> f]
             ELSE LET inner == IF workspace \in DOMAIN old_data
                               THEN old_data[workspace].d ELSE EmptyDict
                  IN  [raised |-> FALSE,
                       file |-> Dumped(DictPut(old_data, workspace,
                                               Dict(DictPut(inner, name, value))))]
        ELSE [raised |-> FALSE, file |-> Dumped(DictPut(old_data, name, Scalar(value)))]

\* get_persist on such a store: the entry it returns, or that it raised
\* (.get on a truthy entry that is not a dict)
get_persist_any(f, name, default, workspace) ==
    LET data == PickleLoad(f)
    IN  IF workspace # NoWorkspace
        THEN IF workspace \in DOMAIN data /\ IsTrue(data[workspace])
             THEN IF data[workspace].is_dict
                  THEN [raised |-> FALSE,
                        value |-> Scalar(DictGet(data[workspace].d, name, default))]
                  ELSE [raised |-> TRUE, value |-> Scalar(None)]
             ELSE [raised |-> FALSE, value |-> Scalar(default)]
        ELSE [raised |-> FALSE, value |-> DictGet(data, name, Scalar(default))]

Returned(v) == [raised |-> FALSE, value |-> Scalar(v)]

Called(op, name, value, workspace, raised) ==
    [op |-> op, name |-> name, value |-> value, workspace |-> workspace, raised |-> raised]

ClientSet(name, value, workspace) ==
    /\ proc.pc = "client"
    /\ LET r == set_persist(file, name, value, workspace)
       IN  /\ file' = r.file
           /\ call' = Called("set", name, value, workspace, r.raised)
    /\ UNCHANGED <<now, tick, ev, sent, act, nev, cfg, proc>>

ClientGet(name, default, workspace) ==
    /\ proc.pc = "client"
    /\ LET r == get_persist_any(file, name, default, workspace)
       IN  call' = Called("get", name, r.value, workspace, r.raised)
    /\ UNCHANGED <<now, file, tick, ev, sent, act, nev, cfg, proc>>

ClientClean ==
    /\ proc.pc = "client"
    /\ file' = clean_persist
    /\ call' = Called("clean", 0, None, NoWorkspace, FALSE)
    /\ UNCHANGED <<now, tick, ev, sent, act, nev, cfg, proc>>

\* one thread calls the store functions, one call after the other; pickle.db
\* does not exist or is empty at first
InitStore ==
    /\ now = 0
    /\ file \in {Missing, clean_persist}
    /\ tick = TickAt("stopped", 0, None, EmptyDict, "none")
    /\ ev = [EvIdle EXCEPT !.pc = "dead"]
    /\ sent = [p \in Paths |-> None]
    /\ act = [p \in Paths |-> None]
    /\ nev = 0
    /\ cfg = MainConfig
    /\ proc = [pc |-> "client", start |-> 0]
    /\ call = NoCall

NextStore ==
    \/ \E name \in StoreKeys, value \in StoreValues, workspace \in StoreKeys \cup {NoWorkspace} :
          ClientSet(name, value, workspace)
    \/ \E name \in StoreKeys, default \in Defaults, workspace \in StoreKeys \cup {NoWorkspace} :
          ClientGet(name, default, workspace)
    \/ ClientClean

SpecStore == InitStore /\ [][NextStore]_vars

\* C14: right after set_persist(name, value, workspace), on whatever the
\* file held, get_persist(name, workspace) returns value; right after
\* clean_persist, get_persist returns the default for every name, with
\* every workspace and with none.
C14_RoundTrip ==
    /\ call.op = "set" =>
          /\ ~call.raised
          /\ \A default \in Defaults :
                get_persist_any(file, call.name, default, call.workspace) = Returned(call.value)
    /\ call.op = "clean" =>
          \A name \in StoreKeys, default \in Defaults, workspace \in StoreKeys \cup {NoWorkspace} :
              get_persist_any(file, name, default, workspace) = Returned(default)

\* C19: a set_persist with workspace W, or with no workspace under any
\* name, leaves what get_persist(k, workspace=W2) returns as it was for
\* every k and every W2 other than W, and a set_persist with workspace W
\* leaves the other names of W as they were.
C19_WorkspaceIsolation ==
    [][call'.op = "set" =>
          \A k \in StoreKeys, W2 \in StoreKeys, default \in Defaults :
              (W2 # call'.workspace \/ k # call'.name) =>
                  get_persist_any(file', k, default, W2) = get_persist_any(file, k, default, W2)]_vars

\* ======================================================================
\* Interrupt
\* ======================================================================
\* the steps of the main thread inside set_persist, after its load
InWrite == {"ci_open", "ci_dump", "sa_open", "sa_dump"}

\* KeyboardInterrupt is raised in the main thread somewhere in the tick
\* loop: no except clause below main()'s catches it (the others name
\* Exception), a "with open(...)" block it leaves closes its file as it is,
\* and main() calls observer.stop()
Interrupt ==
    /\ proc.pc = "loop"
    /\ tick.pc \notin {"crashed", "stopped"}
    /\ proc' = [pc |-> "stopping", start |-> proc.start, at |-> tick.pc]
    /\ tick' = TickAt("interrupted", tick.i, None, EmptyDict, "none")
    /\ UNCHANGED <<now, file, ev, sent, act, nev, cfg, call>>

\* observer.join() returns once the observer thread has finished the
\* dispatch it was in, and main() returns
Exit ==
    /\ proc.pc = "stopping"
    /\ ev.pc \in {"idle", "dead"}
    /\ proc' = [proc EXCEPT !.pc = "exited"]
    /\ UNCHANGED <<now, file, tick, ev, sent, act, nev, cfg, call>>

NextInterrupt ==
    \/ NextWrites
    \/ Interrupt
    \/ Exit

\* the watcher until it is interrupted; store writes succeed
SpecInterrupt == Init /\ [][NextInterrupt]_vars

\* C15: after a KeyboardInterrupt the tick loop and the observer are
\* stopped, and when the interrupt arrived while the main thread was inside
\* a set_persist (in check_idle or in send_alert), the process exits with
\* pickle.db a complete store: it is readable, or it never held an entry
\* (it is still missing, or was emptied by --clean), but it is not a
\* truncated file that held stored values.
C15_InterruptKeepsStore ==
    /\ proc.pc \in {"stopping", "exited"} => tick.pc = "interrupted"
    /\ proc.pc = "exited" => ev.pc \in {"idle", "dead"}
    /\ (proc.pc = "exited" /\ proc.at \in InWrite) => (file.readable \/ file = Missing)

\* ======================================================================
\* Setup
\* ======================================================================
\* command lines: any --alert-type, the three email flags given or not,
\* --clean or not
CommandLines ==
    [alert_type : {"email", "sms", "pager"}, email_to : BOOLEAN,
     mailgun_domain : BOOLEAN, mailgun_api_key : BOOLEAN, clean : BOOLEAN]

\* a store left by an earlier run
EarlierStore == Dumped(SetMutate(EmptyDict, "last_modified", 0, 1))

\* main() step by step up to the tick loop; exists[p] is os.path.exists(p)
InSetup(pc, args, exists, i, scheduled, started, status) ==
    [pc |-> pc, start |-> 0, args |-> args, exists |-> exists, i |-> i,
     scheduled |-> scheduled, started |-> started, status |-> status]

\* sys.exit(status), or main() returning (status 0)
Exited(status) == [proc EXCEPT !.pc = "exited", !.status = status]

InitSetup ==
    /\ now = 0
    /\ file \in {Missing, EarlierStore}
    /\ tick = TickAt("stopped", 0, None, EmptyDict, "none")
    /\ ev = [EvIdle EXCEPT !.pc = "dead"]
    /\ sent = [p \in Paths |-> None]
    /\ act = [p \in Paths |-> None]
    /\ nev = 0
    /\ cfg = MainConfig
    /\ \E args \in CommandLines, exists \in [Paths -> BOOLEAN] :
          proc = InSetup("parse_args", args, exists, 0, {}, FALSE, None)
    /\ call = NoCall

\* parser.parse_args(): a value outside choices=['email', 'sms'] is a usage
\* error, exit status 2
ParseArgs ==
    /\ proc.pc = "parse_args"
    /\ proc' = IF proc.args.alert_type \in {"email", "sms"}
                THEN [proc EXCEPT !.pc = "clean"]
                ELSE Exited(2)
    /\ UNCHANGED <<now, file, tick, ev, sent, act, nev, cfg, call>>

\* if args.clean: clean_persist()
Clean ==
    /\ proc.pc = "clean"
    /\ file' = StartupStore(file, proc.args.clean)
    /\ proc' = [proc EXCEPT !.pc = "validate"]
    /\ UNCHANGED <<now, tick, ev, sent, act, nev, cfg, call>>

\* the three parser.error calls for alert_type == 'email', exit status 2
Validate ==
    /\ proc.pc = "validate"
    /\ proc' = IF /\ proc.args.alert_type = "email"
                   /\ ~(proc.args.email_to /\ proc.args.mailgun_domain
                         /\ proc.args.mailgun_api_key)
                THEN Exited(2)
                ELSE [proc EXCEPT !.pc = "paths", !.i = 1]
    /\ UNCHANGED <<now, file, tick, ev, sent, act, nev, cfg, call>>

\* one round of "for path in paths": a path that does not exist is printed
\* and main() returns; otherwise the handler is constructed and scheduled
SchedulePath ==
    /\ proc.pc = "paths"
    /\ proc' = IF ~proc.exists[proc.i]
                THEN Exited(0)
                ELSE IF proc.i + 1 \in Paths
                THEN [proc EXCEPT !.i = proc.i + 1,
                                  !.scheduled = proc.scheduled \cup {proc.i}]
                ELSE [proc EXCEPT !.pc = "start",
                                  !.scheduled = proc.scheduled \cup {proc.i}]
    /\ UNCHANGED <<now, file, tick, ev, sent, act, nev, cfg, call>>

\* observer.start(), and the main thread enters the tick loop
ObserverStart ==
    /\ proc.pc = "start"
    /\ proc' = [proc EXCEPT !.pc = "loop", !.started = TRUE]
    /\ tick' = TickAt("sleep", 0, None, EmptyDict, "none")
    /\ ev' = EvIdle
    /\ UNCHANGED <<now, file, sent, act, nev, cfg, call>>

NextSetup ==
    \/ ParseArgs
    \/ Clean
    \/ Validate
    \/ SchedulePath
    \/ ObserverStart

SpecSetup == InitSetup /\ [][NextSetup]_vars

\* the command line or the paths are in error
ConfigError ==
    \/ proc.args.alert_type \notin {"email", "sms"}
    \/ /\ proc.args.alert_type = "email"
       /\ ~(proc.args.email_to /\ proc.args.mailgun_domain /\ proc.args.mailgun_api_key)
    \/ \E p \in Paths : ~proc.exists[p]

\* C16: when main() is run with an unsupported --alert-type, without a
\* flag that alert_type email requires, or with a path that does not
\* exist, no watch is scheduled, the observer is not started, the tick loop
\* is not entered, and main() ends with a non-zero exit status.
C16_ConfigErrorsFatal ==
    ConfigError =>
        /\ proc.scheduled = {}
        /\ ~proc.started
        /\ proc.pc # "loop"
        /\ proc.pc = "exited" => proc.status # 0

\* ======================================================================
\* Reads during writes
\* ======================================================================
\* the step is a get_persist, or the load of a set_persist, of the main thread
TickReads ==
    tick.pc \in {"check_idle", "check_send_alert", "ci_load", "sa_load"} /\ tick' # tick

\* the step is the load of the set_persist of dispatch
EvReads == ev.pc = "ev_load" /\ ev' # ev

\* C17: a get_persist, or the load of a set_persist, on one thread reads
\* the last complete content of pickle.db, whatever the other thread is
\* doing: never the empty dict in place of stored values; so check_idle and
\* check_send_alert read the last_modified and last_alert that were stored.
C17_AtomicStoreAccess ==
    [][/\ (TickReads \/ EvReads) => PickleLoad(file) = file.data
       /\ (tick.pc = "check_idle" /\ tick' # tick) =>
              StoredLm(file, tick.i) = Held(file, tick.i, "last_modified")
       /\ (tick.pc = "check_send_alert" /\ tick' # tick) =>
              StoredLa(file, tick.i) = Held(file, tick.i, "last_alert")]_vars

\* ======================================================================
\* The tick decision
\* ======================================================================
\* main() run without --retry-alert-interval: retry_alert_interval is
\* idle_time_threshold
InitDefaultRetry ==
    /\ now = 0
    /\ file \in {Missing, clean_persist}
    /\ tick = TickAt("sleep", 0, None, EmptyDict, "none")
    /\ ev = EvIdle
    /\ sent = [p \in Paths |-> None]
    /\ act = [p \in Paths |-> None]
    /\ nev = 0
    /\ cfg = [MainConfig EXCEPT !.retry_arg = 0]
    /\ proc = InLoop(0)
    /\ call = NoCall

SpecDefaultRetry == InitDefaultRetry /\ [][NextWrites]_vars

\* the time of the first tick: check_idle of a path that had no event
\* initialises last_modified then
FirstTick == 1

\* an alert for p is due at the current tick
AlertDue(p) ==
    IF sent[p] = None THEN now - FirstTick > idle_time_threshold
    ELSE now - sent[p] >= retry_alert_interval

\* the step ends the turn of handler p in the for loop without send_alert
TurnEndsWithoutAlert(p) ==
    /\ tick.pc \in {"check_idle", "ci_cmp", "check_send_alert"}
    /\ tick.i = p
    /\ tick' = NextHandler(p)

\* C18: send_alert of a handler is entered only from its check_send_alert
\* returning TRUE, check_send_alert only from its check_idle returning
\* TRUE, a check_send_alert that returns TRUE is followed by send_alert, and
\* only the main thread at send_alert invokes the notifier, at most once per
\* handler and tick. With retry_alert_interval = idle_time_threshold = D,
\* for a path that has had no event and whose last_modified was initialised
\* at the first tick t0, send_alert is therefore invoked at the first tick
\* with now - t0 > D, then at each first tick with now - (last alert) >= D,
\* and at no tick in between.
C18_TickAndSchedule ==
    [][/\ (tick'.pc = "send_alert" /\ tick.pc # "send_alert") =>
              tick.pc = "check_send_alert" /\ tick'.i = tick.i
       /\ (tick'.pc = "check_send_alert" /\ tick.pc # "check_send_alert") =>
              tick.pc \in {"check_idle", "ci_cmp"} /\ tick'.i = tick.i
       /\ (tick.pc = "check_send_alert" /\ tick' # tick) =>
              (tick'.pc = "send_alert" \/ tick' = NextHandler(tick.i))
       /\ sent' # sent =>
              /\ tick.pc = "send_alert" /\ tick'.pc # "send_alert" /\ ev' = ev
              /\ sent[tick.i] # now
              /\ sent' = [sent EXCEPT ![tick.i] = now]
       /\ \A p \in Paths : NoActivity(p) =>
              /\ (tick.pc = "send_alert" /\ tick.i = p /\ tick' # tick) => AlertDue(p)
              /\ TurnEndsWithoutAlert(p) => ~AlertDue(p)]_vars

\* ======================================================================
\* Read failures
\* ======================================================================
\* the watcher as main() starts it, both threads; store writes succeed
SpecWrites == Init /\ [][NextWrites]_vars

\* a store with the one entry name = v of workspace ws
OneEntry(ws, name, v) == [w \in {ws} |-> [n \in {name} |-> v]]

\* C20: when pickle.db is missing or cannot be loaded, the load yields the
\* empty dict and get_persist returns the default for every name, with a
\* workspace or without; no reading step ends a thread;
\* a set_persist that loads then prepares, and its dump writes, a store with
\* exactly the entry being set; check_idle re-initialises last_modified to
\* now and returns FALSE, and check_send_alert returns TRUE.
C20_ReadFailureDegrades ==
    [][/\ \A f \in {file, file'} : ~f.readable =>
              /\ PickleLoad(f) = EmptyDict
              /\ \A name \in Fields, default \in Defaults,
                    workspace \in Paths \cup {NoWorkspace} :
                      get_persist(f, name, default, workspace) = default
       /\ (TickReads /\ ~file.readable) => tick'.pc # "crashed"
       /\ (EvReads /\ ~file.readable) => ev'.pc # "dead"
       /\ (tick.pc = "check_idle" /\ tick' # tick /\ ~file.readable) =>
              tick' = TickAt("ci_load", tick.i, now, EmptyDict, "none")
       /\ (tick.pc = "ci_load" /\ tick' # tick /\ ~file.readable) =>
              tick'.blob = OneEntry(tick.i, "last_modified", tick.val)
       /\ (tick.pc = "ci_dump" /\ tick' # tick) => file' = Dumped(tick.blob)
       /\ (tick.pc = "ci_cmp" /\ tick' # tick) =>
              tick.val = now /\ tick' = NextHandler(tick.i)
       /\ (tick.pc = "check_send_alert" /\ tick' # tick /\ ~file.readable) =>
              tick'.pc = "send_alert" /\ tick'.i = tick.i
       /\ (tick.pc = "sa_load" /\ tick' # tick /\ ~file.readable) =>
              tick'.blob = OneEntry(tick.i, "last_alert", now)
       /\ (tick.pc = "sa_dump" /\ tick' # tick) => file' = Dumped(tick.blob)
       /\ (ev.pc = "ev_load" /\ ev' # ev /\ ~file.readable) =>
              ev'.blob = OneEntry(ev.path, "last_modified", ev.val)
       /\ (ev.pc = "ev_dump" /\ ev' # ev) => file' = Dumped(ev.blob)]_vars

\* check_idle could not load a file whose last complete content held
\* entries, and is about to write a store with its one entry
C20_Witness ==
    /\ tick.pc = "ci_open"
    /\ ~file.readable
    /\ file.data # EmptyDict
    /\ tick.val = now
    /\ tick.blob = OneEntry(tick.i, "last_modified", now)

====
